---- MODULE Spec2Model ----
(***************************************************************************)
(* Cumulative frequency tables (crate cumulfreqtable).                     *)
(*                                                                         *)
(* The three implementations of the CumulFreqTable trait                   *)
(*   freq_array::FreqTable            (freqs, total)                       *)
(*   cumulfreq_array::CumulFreqTable  (sums)                               *)
(*   binary_indexed_tree::CumulFreqTable (tree)                            *)
(* are driven side by side by one caller that issues the same call to      *)
(* every table.  The frequency type F is an unsigned integer of FBits      *)
(* bits built with overflow checks ("Panics on overflow in debug"): an     *)
(* arithmetic result outside 0..FMax panics.  A panic ends the run.        *)
(* Positions are 0-based as in the source; cell p of a boxed slice is      *)
(* element p + 1 of the sequence that models it.                           *)
(***************************************************************************)
EXTENDS Integers, Sequences, FiniteSets

VARIABLES pc, active, freqs, total, sums, tree, call, ret, track, walk

vars == <<pc, active, freqs, total, sums, tree, call, ret, track, walk>>

(* ---- bounds ---- *)
\* Width in bits of the frequency type F.
FBits == 3
\* Largest table length the caller constructs.
MaxLen == 4
\* Largest amount of one add or sub call.
MaxVal == 3
\* Largest length of the tree whose loops are followed iteration by iteration.
MaxLoopLen == 8

RECURSIVE Pow2(_)
Pow2(k) == IF k = 0 THEN 1 ELSE 2 * Pow2(k - 1)

\* F::MAX of the unsigned FBits-bit type.
FMax == Pow2(FBits) - 1
FVals == 0..FMax
\* Amounts the caller passes to add and sub.
Vals == 0..(IF MaxVal < FMax THEN MaxVal ELSE FMax)

FA == "freq_array"
CA == "cumulfreq_array"
BIT == "binary_indexed_tree"
Impls == {FA, CA, BIT}

\* The closures handed to scale: x / 2, (x + 1) / 2, x * 2, x / 2 + 1.
ScaleFns == {"half", "halfup", "double", "halfplus1"}

\* Result of applying a closure to x in F; -1 when the closure panics on overflow.
ApplyF(fn, x) ==
  CASE fn = "half" -> x \div 2
    [] fn = "halfup" -> IF x + 1 > FMax THEN -1 ELSE (x + 1) \div 2
    [] fn = "double" -> IF x * 2 > FMax THEN -1 ELSE x * 2
    [] fn = "halfplus1" -> IF (x \div 2) + 1 > FMax THEN -1 ELSE (x \div 2) + 1

(* ---- outcomes of a call ---- *)
\* st: "ok" (returned), "panic" (assertion, overflow, failed unwrap),
\*     "ub" (unwrap_unchecked of None), "none" (not called).
\* v: the returned value (0 for unit); fargs: the arguments scale passed to its closure,
\* in call order; t: the table after the call.
Out(st, v, fargs, t) == [st |-> st, v |-> v, fargs |-> fargs, t |-> t]
Ok(v, t) == Out("ok", v, <<>>, t)
Panic(t) == Out("panic", 0, <<>>, t)

Get(s, p) == s[p + 1]
Put(s, p, v) == [s EXCEPT ![p + 1] = v]

(***************************************************************************)
(* freq_array::FreqTable.  A table is [freqs |-> Seq(F), total |-> F].     *)
(***************************************************************************)
NoFreqTable == [freqs |-> <<>>, total |-> 0]

FreqTable_new(len) ==
  IF len = 0 THEN Panic(NoFreqTable)
  ELSE Ok(0, [freqs |-> [i \in 1..len |-> 0], total |-> 0])

FreqTable_with_freq(len, init) ==
  IF len = 0 THEN Panic(NoFreqTable)
  ELSE IF len > FMax THEN Panic(NoFreqTable)            \* len.try_into().unwrap()
  ELSE IF init * len > FMax THEN Panic(NoFreqTable)     \* init * len
  ELSE Ok(0, [freqs |-> [i \in 1..len |-> init], total |-> init * len])

FreqTable_len(t) == Ok(Len(t.freqs), t)

FreqTable_add(t, pos, val) ==
  IF ~(pos < Len(t.freqs)) THEN Panic(t)
  ELSE IF Get(t.freqs, pos) + val > FMax THEN Panic(t)
  ELSE LET f1 == Put(t.freqs, pos, Get(t.freqs, pos) + val)
       IN IF t.total + val > FMax THEN Panic([t EXCEPT !.freqs = f1])
          ELSE Ok(0, [freqs |-> f1, total |-> t.total + val])

\* Variant of sub that leaves the total field alone.
FreqTable_sub_keep_total(t, pos, val) ==
  IF ~(pos < Len(t.freqs)) THEN Panic(t)
  ELSE IF Get(t.freqs, pos) - val < 0 THEN Panic(t)
  ELSE Ok(0, [t EXCEPT !.freqs = Put(t.freqs, pos, Get(t.freqs, pos) - val)])

FreqTable_sub(t, pos, val) ==
  IF ~(pos < Len(t.freqs)) THEN Panic(t)
  ELSE IF Get(t.freqs, pos) - val < 0 THEN Panic(t)
  ELSE LET f1 == Put(t.freqs, pos, Get(t.freqs, pos) - val)
       IN IF t.total - val < 0 THEN Panic([t EXCEPT !.freqs = f1])
          ELSE Ok(0, [freqs |-> f1, total |-> t.total - val])

\* freqs[..=pos].iter().copied().sum(): left fold from zero with checked additions.
RECURSIVE FreqTable_sum_iter(_, _, _, _)
FreqTable_sum_iter(t, i, pos, acc) ==
  IF i > pos THEN Ok(acc, t)
  ELSE IF acc + Get(t.freqs, i) > FMax THEN Panic(t)
  ELSE FreqTable_sum_iter(t, i + 1, pos, acc + Get(t.freqs, i))

FreqTable_sum(t, pos) ==
  IF ~(pos < Len(t.freqs)) THEN Panic(t) ELSE FreqTable_sum_iter(t, 0, pos, 0)

FreqTable_total(t) == Ok(t.total, t)

FreqTable_freq(t, pos) ==
  IF ~(pos < Len(t.freqs)) THEN Panic(t) ELSE Ok(Get(t.freqs, pos), t)

\* position(|freq| { r_sum += freq; r_sum >= sum }) followed by unwrap_unchecked:
\* the set of outcomes, more than one only when position returns None.
\* g stands for what the unchecked unwrap of None may yield: -1 for a crash, otherwise
\* a returned usize, len - 1 standing for every position of the table and len for every
\* value that is no position.
RECURSIVE FreqTable_find_iter(_, _, _, _)
FreqTable_find_iter(t, i, r_sum, sum) ==
  IF i >= Len(t.freqs) THEN {Out("ub", g, <<>>, t) : g \in {-1, Len(t.freqs) - 1, Len(t.freqs)}}
  ELSE IF r_sum + Get(t.freqs, i) > FMax THEN {Panic(t)}
  ELSE IF r_sum + Get(t.freqs, i) >= sum THEN {Ok(i, t)}
  ELSE FreqTable_find_iter(t, i + 1, r_sum + Get(t.freqs, i), sum)

FreqTable_find_by_sum(t, sum) == FreqTable_find_iter(t, 0, 0, sum)

\* for freq in freqs.iter_mut() { *freq = scale_freq(*freq); sum += *freq; } total = sum
RECURSIVE FreqTable_scale_iter(_, _, _, _, _)
FreqTable_scale_iter(t, fn, i, sum, fargs) ==
  IF i >= Len(t.freqs) THEN Out("ok", 0, fargs, [t EXCEPT !.total = sum])
  ELSE LET x == Get(t.freqs, i)
           y == ApplyF(fn, x)
           seen == Append(fargs, x)
       IN IF y < 0 THEN Out("panic", 0, seen, t)
          ELSE LET t1 == [t EXCEPT !.freqs = Put(t.freqs, i, y)]
               IN IF sum + y > FMax THEN Out("panic", 0, seen, t1)
                  ELSE FreqTable_scale_iter(t1, fn, i + 1, sum + y, seen)

FreqTable_scale(t, fn) == FreqTable_scale_iter(t, fn, 0, 0, <<>>)

(***************************************************************************)
(* cumulfreq_array::CumulFreqTable.  A table is the sequence sums.         *)
(***************************************************************************)
\* for sum in sums.iter_mut() { *sum = total; total += init; }
RECURSIVE CumulFreqTable_with_freq_iter(_, _, _, _)
CumulFreqTable_with_freq_iter(s, i, tot, init) ==
  IF i >= Len(s) THEN Ok(0, s)
  ELSE IF tot + init > FMax THEN Panic(<<>>)
  ELSE CumulFreqTable_with_freq_iter(Put(s, i, tot), i + 1, tot + init, init)

CumulFreqTable_new(len) ==
  IF len = 0 THEN Panic(<<>>) ELSE Ok(0, [i \in 1..len |-> 0])

CumulFreqTable_with_freq(len, init) ==
  IF len = 0 THEN Panic(<<>>)
  ELSE CumulFreqTable_with_freq_iter([i \in 1..len |-> 0], 0, init, init)

CumulFreqTable_len(s) == Ok(Len(s), s)

\* for sum in sums[pos..].iter_mut() { *sum += val; }
RECURSIVE CumulFreqTable_add_iter(_, _, _)
CumulFreqTable_add_iter(s, i, val) ==
  IF i >= Len(s) THEN Ok(0, s)
  ELSE IF Get(s, i) + val > FMax THEN Panic(s)
  ELSE CumulFreqTable_add_iter(Put(s, i, Get(s, i) + val), i + 1, val)

\* Variant of add without the bounds assertion: sums[len..] is the empty slice.
CumulFreqTable_add_unchecked(s, pos, val) ==
  IF pos > Len(s) THEN Panic(s) ELSE CumulFreqTable_add_iter(s, pos, val)

CumulFreqTable_add(s, pos, val) ==
  IF ~(pos < Len(s)) THEN Panic(s) ELSE CumulFreqTable_add_iter(s, pos, val)

RECURSIVE CumulFreqTable_sub_iter(_, _, _)
CumulFreqTable_sub_iter(s, i, val) ==
  IF i >= Len(s) THEN Ok(0, s)
  ELSE IF Get(s, i) - val < 0 THEN Panic(s)
  ELSE CumulFreqTable_sub_iter(Put(s, i, Get(s, i) - val), i + 1, val)

CumulFreqTable_sub(s, pos, val) ==
  IF ~(pos < Len(s)) THEN Panic(s) ELSE CumulFreqTable_sub_iter(s, pos, val)

CumulFreqTable_sum(s, pos) ==
  IF ~(pos < Len(s)) THEN Panic(s) ELSE Ok(Get(s, pos), s)

\* sums.last() is Some because the table is never empty.
CumulFreqTable_total(s) == Ok(Get(s, Len(s) - 1), s)

CumulFreqTable_freq(s, pos) ==
  IF ~(pos < Len(s)) THEN Panic(s)
  ELSE IF pos = 0 THEN Ok(Get(s, 0), s)
  ELSE IF Get(s, pos) - Get(s, pos - 1) < 0 THEN Panic(s)
  ELSE Ok(Get(s, pos) - Get(s, pos - 1), s)

\* position(|i_sum| i_sum >= sum) followed by unwrap_unchecked.
RECURSIVE CumulFreqTable_find_iter(_, _, _)
CumulFreqTable_find_iter(s, i, sum) ==
  IF i >= Len(s) THEN {Out("ub", g, <<>>, s) : g \in {-1, Len(s) - 1, Len(s)}}
  ELSE IF Get(s, i) >= sum THEN {Ok(i, s)}
  ELSE CumulFreqTable_find_iter(s, i + 1, sum)

CumulFreqTable_find_by_sum(s, sum) == CumulFreqTable_find_iter(s, 0, sum)

\* for sum in sums.iter_mut() { spsum += scale_freq(*sum - psum); psum = replace(sum, spsum); }
RECURSIVE CumulFreqTable_scale_iter(_, _, _, _, _, _)
CumulFreqTable_scale_iter(s, fn, i, psum, spsum, fargs) ==
  IF i >= Len(s) THEN Out("ok", 0, fargs, s)
  ELSE IF Get(s, i) - psum < 0 THEN Out("panic", 0, fargs, s)
  ELSE LET x == Get(s, i) - psum
           y == ApplyF(fn, x)
           seen == Append(fargs, x)
       IN IF y < 0 THEN Out("panic", 0, seen, s)
          ELSE IF spsum + y > FMax THEN Out("panic", 0, seen, s)
          ELSE CumulFreqTable_scale_iter(Put(s, i, spsum + y), fn, i + 1,
                                         Get(s, i), spsum + y, seen)

CumulFreqTable_scale(s, fn) == CumulFreqTable_scale_iter(s, fn, 0, 0, 0, <<>>)

(***************************************************************************)
(* binary_indexed_tree::CumulFreqTable.  A table is the sequence tree.     *)
(***************************************************************************)
\* usize::trailing_zeros of a position > 0.
RECURSIVE TrailingZeros(_)
TrailingZeros(pos) == IF pos % 2 = 1 THEN 0 ELSE 1 + TrailingZeros(pos \div 2)

\* 1 << pos.trailing_zeros(): the least significant set bit of pos > 0.
LowBit(pos) == Pow2(TrailingZeros(pos))

\* usize::next_power_of_two: the smallest power of two >= n, for n >= 1.
RECURSIVE NextPowerOfTwoFrom(_, _)
NextPowerOfTwoFrom(p, n) == IF p >= n THEN p ELSE NextPowerOfTwoFrom(2 * p, n)
NextPowerOfTwo(n) == NextPowerOfTwoFrom(1, n)

BinaryIndexedTree_new(len) ==
  IF len = 0 THEN Panic(<<>>) ELSE Ok(0, [i \in 1..len |-> 0])

\* init << i.trailing_zeros() in F: the shift panics when the amount reaches the width
\* of F, and otherwise drops the bits shifted out.
BinaryIndexedTree_with_freq(len, init) ==
  IF len = 0 THEN Panic(<<>>)
  ELSE IF \E i \in 1..(len - 1) : TrailingZeros(i) >= FBits THEN Panic(<<>>)
  ELSE Ok(0, [j \in 1..len |->
                IF j = 1 THEN init
                ELSE (init * Pow2(TrailingZeros(j - 1))) % Pow2(FBits)])

BinaryIndexedTree_len(tr) == Ok(Len(tr), tr)

\* Variant of the add walk that steps to pos + 1 instead of adding the lowest set bit.
RECURSIVE BinaryIndexedTree_add_iter_step1(_, _, _)
BinaryIndexedTree_add_iter_step1(tr, pos, val) ==
  IF ~(pos < Len(tr)) THEN Ok(0, tr)
  ELSE IF Get(tr, pos) + val > FMax THEN Panic(tr)
  ELSE BinaryIndexedTree_add_iter_step1(Put(tr, pos, Get(tr, pos) + val), pos + 1, val)

\* while pos < len { tree[pos] += val; pos += 1 << pos.trailing_zeros(); }
RECURSIVE BinaryIndexedTree_add_iter(_, _, _)
BinaryIndexedTree_add_iter(tr, pos, val) ==
  IF ~(pos < Len(tr)) THEN Ok(0, tr)
  ELSE IF Get(tr, pos) + val > FMax THEN Panic(tr)
  ELSE BinaryIndexedTree_add_iter(Put(tr, pos, Get(tr, pos) + val), pos + LowBit(pos), val)

BinaryIndexedTree_add(tr, pos, val) ==
  IF ~(pos < Len(tr)) THEN Panic(tr)
  ELSE IF pos = 0
       THEN IF Get(tr, 0) + val > FMax THEN Panic(tr)
            ELSE Ok(0, Put(tr, 0, Get(tr, 0) + val))
       ELSE BinaryIndexedTree_add_iter(tr, pos, val)

RECURSIVE BinaryIndexedTree_sub_iter(_, _, _)
BinaryIndexedTree_sub_iter(tr, pos, val) ==
  IF ~(pos < Len(tr)) THEN Ok(0, tr)
  ELSE IF Get(tr, pos) - val < 0 THEN Panic(tr)
  ELSE BinaryIndexedTree_sub_iter(Put(tr, pos, Get(tr, pos) - val), pos + LowBit(pos), val)

BinaryIndexedTree_sub(tr, pos, val) ==
  IF ~(pos < Len(tr)) THEN Panic(tr)
  ELSE IF pos = 0
       THEN IF Get(tr, 0) - val < 0 THEN Panic(tr)
            ELSE Ok(0, Put(tr, 0, Get(tr, 0) - val))
       ELSE BinaryIndexedTree_sub_iter(tr, pos, val)

\* while pos > 0 { sum += tree[pos]; pos -= 1 << pos.trailing_zeros(); }
RECURSIVE BinaryIndexedTree_sum_iter(_, _, _)
BinaryIndexedTree_sum_iter(tr, pos, sum) ==
  IF ~(pos > 0) THEN Ok(sum, tr)
  ELSE IF sum + Get(tr, pos) > FMax THEN Panic(tr)
  ELSE BinaryIndexedTree_sum_iter(tr, pos - LowBit(pos), sum + Get(tr, pos))

BinaryIndexedTree_sum(tr, pos) ==
  IF ~(pos < Len(tr)) THEN Panic(tr)
  ELSE BinaryIndexedTree_sum_iter(tr, pos, Get(tr, 0))

BinaryIndexedTree_total(tr) == BinaryIndexedTree_sum(tr, Len(tr) - 1)

\* while parent != pos { freq -= tree[pos]; pos -= 1 << pos.trailing_zeros(); }
\* At pos = 0 the shift amount is the width of usize and the shift panics.
RECURSIVE BinaryIndexedTree_freq_iter(_, _, _, _)
BinaryIndexedTree_freq_iter(tr, parent, pos, freq) ==
  IF parent = pos THEN Ok(freq, tr)
  ELSE IF freq - Get(tr, pos) < 0 THEN Panic(tr)
  ELSE IF pos = 0 THEN Panic(tr)
  ELSE BinaryIndexedTree_freq_iter(tr, parent, pos - LowBit(pos), freq - Get(tr, pos))

BinaryIndexedTree_freq(tr, pos) ==
  IF ~(pos < Len(tr)) THEN Panic(tr)
  ELSE IF pos > 0
       THEN BinaryIndexedTree_freq_iter(tr, pos - LowBit(pos), pos - 1, Get(tr, pos))
       ELSE Ok(Get(tr, pos), tr)

\* while mid != 0 { let hi = pos + mid;
\*   if hi < len && sum >= tree[hi] { pos = hi; sum -= tree[pos]; } mid /= 2; }
RECURSIVE BinaryIndexedTree_find_iter(_, _, _, _)
BinaryIndexedTree_find_iter(tr, pos, mid, sum) ==
  IF mid = 0 THEN Ok(pos, tr)
  ELSE LET hi == pos + mid
       IN IF hi < Len(tr) /\ sum >= Get(tr, hi)
          THEN BinaryIndexedTree_find_iter(tr, hi, mid \div 2, sum - Get(tr, hi))
          ELSE BinaryIndexedTree_find_iter(tr, pos, mid \div 2, sum)

\* Variant of find_by_sum that starts the descent from half the initial step.
BinaryIndexedTree_find_by_sum_half_mid(tr, sum) ==
  IF sum > Get(tr, 0)
  THEN BinaryIndexedTree_find_iter(tr, 0,
                                   NextPowerOfTwo(((Len(tr) - 1) \div 2) + 1) \div 2,
                                   sum - Get(tr, 0))
  ELSE Ok(0, tr)

BinaryIndexedTree_find_by_sum(tr, sum) ==
  IF sum > Get(tr, 0)
  THEN BinaryIndexedTree_find_iter(tr, 0, NextPowerOfTwo(((Len(tr) - 1) \div 2) + 1),
                                   sum - Get(tr, 0))
  ELSE Ok(0, tr)

\* for pos in (1..len).rev() { freq = self.freq(pos); sfreq = scale_freq(freq);
\*   if sfreq < freq { self.sub(pos, freq - sfreq) }
\*   else if sfreq > freq { self.add(pos, sfreq - freq) } }
\* tree[0] = scale_freq(tree[0]);
RECURSIVE BinaryIndexedTree_scale_iter(_, _, _, _)
BinaryIndexedTree_scale_iter(tr, fn, pos, fargs) ==
  IF pos = 0
  THEN LET y == ApplyF(fn, Get(tr, 0))
           seen == Append(fargs, Get(tr, 0))
       IN IF y < 0 THEN Out("panic", 0, seen, tr)
          ELSE Out("ok", 0, seen, Put(tr, 0, y))
  ELSE LET fr == BinaryIndexedTree_freq(tr, pos)
       IN IF fr.st # "ok" THEN Out("panic", 0, fargs, tr)
          ELSE LET freq == fr.v
                   sfreq == ApplyF(fn, freq)
                   seen == Append(fargs, freq)
                   upd == IF sfreq < freq THEN BinaryIndexedTree_sub(tr, pos, freq - sfreq)
                          ELSE IF sfreq > freq
                               THEN BinaryIndexedTree_add(tr, pos, sfreq - freq)
                               ELSE Ok(0, tr)
               IN IF sfreq < 0 THEN Out("panic", 0, seen, tr)
                  ELSE IF upd.st # "ok" THEN Out("panic", 0, seen, upd.t)
                  ELSE BinaryIndexedTree_scale_iter(upd.t, fn, pos - 1, seen)

BinaryIndexedTree_scale(tr, fn) == BinaryIndexedTree_scale_iter(tr, fn, Len(tr) - 1, <<>>)

(***************************************************************************)
(* The caller.  pc is its position: "start" before construction, "ready"   *)
(* between calls, "returned" while it holds the results of a call that     *)
(* completed in every table, "halted" once a call failed in some table.    *)
(* call is the call last issued, ret what each implementation answered.    *)
(* track remembers whether the tables were built by new(len) followed by   *)
(* add(0, k), add(1, k), ... : j such adds were made, -1 when the history  *)
(* is a different one.  walk is idle here: it holds the loop variables of  *)
(* a binary_indexed_tree call only where that call is followed iteration   *)
(* by iteration (SpecLoops below).                                         *)
(***************************************************************************)
Call(op, len, pos, val, fn) == [op |-> op, len |-> len, pos |-> pos, val |-> val, fn |-> fn]
NoCall == Call("none", 0, 0, 0, "none")

Res(o) == [st |-> o.st, v |-> o.v, fargs |-> o.fargs]
NotCalled == [st |-> "none", v |-> 0, fargs |-> <<>>]

NoTrack == [k |-> -1, j |-> -1]

\* The local variables of a binary_indexed_tree call that is inside its loop: the
\* position, the parent index of freq, the step of find_by_sum, the accumulator (sum or
\* freq), the amount of add and sub, the last index at which find_by_sum read the tree
\* (-1 when it read none) and the tree the call started from.
Walk(op, pos, parent, mid, acc, val, hi, t0) ==
  [op |-> op, pos |-> pos, parent |-> parent, mid |-> mid, acc |-> acc, val |-> val,
   hi |-> hi, t0 |-> t0]
NoWalk == Walk("none", 0, 0, 0, 0, 0, -1, <<>>)

FT == [freqs |-> freqs, total |-> total]

TableLen ==
  IF FA \in active THEN Len(freqs) ELSE IF CA \in active THEN Len(sums) ELSE Len(tree)

Positions == 0..TableLen

\* The call c was answered oF, oC, oB by the three implementations.
Finish(c, oF, oC, oB, tr) ==
  /\ call' = c
  /\ ret' = [i \in Impls |->
               IF i \notin active THEN NotCalled
               ELSE IF i = FA THEN Res(oF) ELSE IF i = CA THEN Res(oC) ELSE Res(oB)]
  /\ freqs' = IF FA \in active THEN oF.t.freqs ELSE freqs
  /\ total' = IF FA \in active THEN oF.t.total ELSE total
  /\ sums' = IF CA \in active THEN oC.t ELSE sums
  /\ tree' = IF BIT \in active THEN oB.t ELSE tree
  /\ pc' = IF /\ FA \in active => oF.st = "ok"
              /\ CA \in active => oC.st = "ok"
              /\ BIT \in active => oB.st = "ok"
           THEN "returned" ELSE "halted"
  /\ track' = tr
  /\ UNCHANGED <<active, walk>>

Init ==
  /\ pc = "start"
  /\ active = Impls
  /\ freqs = <<>>
  /\ total = 0
  /\ sums = <<>>
  /\ tree = <<>>
  /\ call = NoCall
  /\ ret = [i \in Impls |-> NotCalled]
  /\ track = NoTrack
  /\ walk = NoWalk

New ==
  /\ pc = "start"
  /\ \E len \in 0..MaxLen :
       Finish(Call("new", len, 0, 0, "none"),
              FreqTable_new(len), CumulFreqTable_new(len), BinaryIndexedTree_new(len),
              [k |-> -1, j |-> 0])

WithFreq ==
  /\ pc = "start"
  /\ \E len \in 0..MaxLen, init \in FVals :
       Finish(Call("with_freq", len, 0, init, "none"),
              FreqTable_with_freq(len, init), CumulFreqTable_with_freq(len, init),
              BinaryIndexedTree_with_freq(len, init), NoTrack)

\* The caller drops the results it holds and goes on to its next call.
Proceed ==
  /\ pc = "returned"
  /\ pc' = "ready"
  /\ call' = NoCall
  /\ ret' = [i \in Impls |-> NotCalled]
  /\ UNCHANGED <<active, freqs, total, sums, tree, track, walk>>

LenOf ==
  /\ pc = "ready"
  /\ Finish(Call("len", 0, 0, 0, "none"),
            FreqTable_len(FT), CumulFreqTable_len(sums), BinaryIndexedTree_len(tree), track)

Add ==
  /\ pc = "ready"
  /\ \E pos \in Positions, val \in Vals :
       Finish(Call("add", 0, pos, val, "none"),
              FreqTable_add(FT, pos, val), CumulFreqTable_add(sums, pos, val),
              BinaryIndexedTree_add(tree, pos, val),
              IF track.j = pos /\ pos < TableLen /\ (pos = 0 \/ val = track.k)
              THEN [k |-> val, j |-> pos + 1] ELSE NoTrack)

Sub ==
  /\ pc = "ready"
  /\ \E pos \in Positions, val \in Vals :
       Finish(Call("sub", 0, pos, val, "none"),
              FreqTable_sub(FT, pos, val), CumulFreqTable_sub(sums, pos, val),
              BinaryIndexedTree_sub(tree, pos, val), NoTrack)

\* inc(pos) is self.add(pos, 1.into()).
Inc ==
  /\ pc = "ready"
  /\ \E pos \in Positions :
       Finish(Call("inc", 0, pos, 0, "none"),
              FreqTable_add(FT, pos, 1), CumulFreqTable_add(sums, pos, 1),
              BinaryIndexedTree_add(tree, pos, 1), NoTrack)

\* dec(pos) is self.sub(pos, 1.into()).
Dec ==
  /\ pc = "ready"
  /\ \E pos \in Positions :
       Finish(Call("dec", 0, pos, 0, "none"),
              FreqTable_sub(FT, pos, 1), CumulFreqTable_sub(sums, pos, 1),
              BinaryIndexedTree_sub(tree, pos, 1), NoTrack)

Sum ==
  /\ pc = "ready"
  /\ \E pos \in Positions :
       Finish(Call("sum", 0, pos, 0, "none"),
              FreqTable_sum(FT, pos), CumulFreqTable_sum(sums, pos),
              BinaryIndexedTree_sum(tree, pos), track)

Total ==
  /\ pc = "ready"
  /\ Finish(Call("total", 0, 0, 0, "none"),
            FreqTable_total(FT), CumulFreqTable_total(sums), BinaryIndexedTree_total(tree),
            track)

Freq ==
  /\ pc = "ready"
  /\ \E pos \in Positions :
       Finish(Call("freq", 0, pos, 0, "none"),
              FreqTable_freq(FT, pos), CumulFreqTable_freq(sums, pos),
              BinaryIndexedTree_freq(tree, pos), track)

FindBySum ==
  /\ pc = "ready"
  /\ \E target \in FVals :
       \E oF \in FreqTable_find_by_sum(FT, target),
          oC \in CumulFreqTable_find_by_sum(sums, target) :
         Finish(Call("find_by_sum", 0, 0, target, "none"),
                oF, oC, BinaryIndexedTree_find_by_sum(tree, target), track)

Scale ==
  /\ pc = "ready"
  /\ \E fn \in ScaleFns :
       Finish(Call("scale", 0, 0, 0, fn),
              FreqTable_scale(FT, fn), CumulFreqTable_scale(sums, fn),
              BinaryIndexedTree_scale(tree, fn), NoTrack)

Next ==
  \/ New
  \/ WithFreq
  \/ Proceed
  \/ LenOf
  \/ Add
  \/ Sub
  \/ Inc
  \/ Dec
  \/ Sum
  \/ Total
  \/ Freq
  \/ FindBySum
  \/ Scale

Spec == Init /\ [][Next]_vars

(***************************************************************************)
(* The queries of the trait, dispatched on the implementation.             *)
(***************************************************************************)
Tbl(i) == IF i = FA THEN FT ELSE IF i = CA THEN sums ELSE tree

len_of(i, t) ==
  IF i = FA THEN FreqTable_len(t)
  ELSE IF i = CA THEN CumulFreqTable_len(t) ELSE BinaryIndexedTree_len(t)

sum_of(i, t, pos) ==
  IF i = FA THEN FreqTable_sum(t, pos)
  ELSE IF i = CA THEN CumulFreqTable_sum(t, pos) ELSE BinaryIndexedTree_sum(t, pos)

freq_of(i, t, pos) ==
  IF i = FA THEN FreqTable_freq(t, pos)
  ELSE IF i = CA THEN CumulFreqTable_freq(t, pos) ELSE BinaryIndexedTree_freq(t, pos)

total_of(i, t) ==
  IF i = FA THEN FreqTable_total(t)
  ELSE IF i = CA THEN CumulFreqTable_total(t) ELSE BinaryIndexedTree_total(t)

with_freq_of(i, len, init) ==
  IF i = FA THEN FreqTable_with_freq(len, init)
  ELSE IF i = CA THEN CumulFreqTable_with_freq(len, init)
  ELSE BinaryIndexedTree_with_freq(len, init)

(***************************************************************************)
(* Properties.                                                             *)
(***************************************************************************)
\* The tables exist and every call so far completed in every implementation.
Alive == pc \in {"ready", "returned"} /\ TableLen > 0

\* A constructor or a mutation just completed in every implementation.
Changed ==
  /\ pc = "returned"
  /\ call.op \in {"new", "with_freq", "add", "sub", "inc", "dec", "scale"}
  /\ TableLen > 0

\* Mathematical sum of the values freq(0), ..., freq(pos) return for table t of
\* implementation i; -1 when one of these calls fails.
RECURSIVE SumOfFreqs(_, _, _)
SumOfFreqs(i, t, pos) ==
  IF pos < 0 THEN 0
  ELSE LET f == freq_of(i, t, pos)
           rest == SumOfFreqs(i, t, pos - 1)
       IN IF f.st # "ok" \/ rest < 0 THEN -1 ELSE f.v + rest

\* sum(pos) returns, every freq(q) with q <= pos returns, and sum(pos) is their sum.
SumIsPrefixSum(i, t, pos) ==
  LET s == sum_of(i, t, pos)
  IN s.st = "ok" /\ s.v = SumOfFreqs(i, t, pos)

\* A constructor or a mutation was just answered, by a completion or by a failure.
Mutated ==
  /\ pc \in {"returned", "halted"}
  /\ call.op \in {"new", "with_freq", "add", "sub", "inc", "dec", "scale"}

\* C1: in each implementation where the constructor and every mutation so far completed,
\* sum(pos) is the sum of freq(0), ..., freq(pos) for every position of its table.
C1_SumIsSumOfFreqs ==
  Mutated =>
    \A i \in active :
      ret[i].st = "ok" =>
        \A pos \in 0..(len_of(i, Tbl(i)).v - 1) : SumIsPrefixSum(i, Tbl(i), pos)

\* The same equality, after the calls that completed in all three implementations.
SumIsSumOfFreqsWhenAllComplete ==
  Changed => \A i \in active : \A pos \in 0..(TableLen - 1) : SumIsPrefixSum(i, Tbl(i), pos)

\* C2: in every implementation total() equals sum(len - 1), and the total field of
\* FreqTable is the sum of its freqs array.
C2_TotalIsLastSum ==
  Changed =>
    /\ \A i \in active :
         /\ total_of(i, Tbl(i)).st = "ok"
         /\ sum_of(i, Tbl(i), TableLen - 1).st = "ok"
         /\ total_of(i, Tbl(i)).v = sum_of(i, Tbl(i), TableLen - 1).v
    /\ FA \in active => total = SumOfFreqs(FA, FT, Len(freqs) - 1)

\* A scale that changed a table of two or more positions and left a non-zero total.
C2_Witness ==
  /\ pc = "returned"
  /\ call.op = "scale"
  /\ call.fn = "halfup"
  /\ TableLen >= 2
  /\ total >= 2
  /\ \A i \in active : total_of(i, Tbl(i)).v = total

\* The smallest position whose cumulative frequency reaches target; len when none does.
RECURSIVE FirstReaching(_, _, _, _)
FirstReaching(i, t, pos, target) ==
  IF pos >= len_of(i, t).v THEN pos
  ELSE IF sum_of(i, t, pos).st = "ok" /\ sum_of(i, t, pos).v >= target THEN pos
  ELSE FirstReaching(i, t, pos + 1, target)

FindReturned == pc \in {"returned", "halted"} /\ call.op = "find_by_sum"

\* C3: in every implementation find_by_sum(target) with 0 <= target <= total() returns the
\* smallest position whose cumulative frequency is >= target.
C3_FindBySumIsFirstReaching ==
  (FindReturned /\ call.val <= total) =>
    \A i \in active :
      /\ ret[i].st = "ok"
      /\ ret[i].v = FirstReaching(i, Tbl(i), 0, call.val)

\* The prefix sums sum(0) < sum(1) < ... < sum(pos) of table t are strictly increasing.
StrictlyIncreasingUpTo(i, t, pos) ==
  \A q \in 1..pos : sum_of(i, t, q - 1).v < sum_of(i, t, q).v

\* C4: in every implementation find_by_sum(sum(pos)) = pos whenever the prefix sums up
\* to pos are strictly increasing, whatever the frequencies after pos.
C4_FindBySumRoundTrip ==
  FindReturned =>
    \A i \in active : \A pos \in 0..(TableLen - 1) :
      (sum_of(i, Tbl(i), pos).v = call.val /\ StrictlyIncreasingUpTo(i, Tbl(i), pos))
        => (ret[i].st = "ok" /\ ret[i].v = pos)

\* C5: in every implementation find_by_sum(target) with target > total() returns a
\* position of the table: no panic, no unchecked unwrap of None.
C5_FindBySumBeyondTotal ==
  (FindReturned /\ call.val > total) =>
    \A i \in active : ret[i].st = "ok" /\ ret[i].v \in 0..(TableLen - 1)

Count(seq, v) == Cardinality({k \in 1..Len(seq) : seq[k] = v})

\* What a completed scale(fn) did to implementation i, whose table was old and is new:
\* the closure was called once per position, on the frequencies of old; every frequency
\* of new is the closure's value at the frequency of old; sum and total of new are the
\* prefix sums of the frequencies of new.
ScaledOnce(i, old, new, fn, fargs) ==
  LET n == len_of(i, old).v
  IN /\ Len(fargs) = n
     /\ \A v \in FVals :
          Count(fargs, v) = Cardinality({p \in 0..(n - 1) : freq_of(i, old, p).v = v})
     /\ \A p \in 0..(n - 1) :
          /\ freq_of(i, new, p).st = "ok"
          /\ freq_of(i, new, p).v = ApplyF(fn, freq_of(i, old, p).v)
          /\ SumIsPrefixSum(i, new, p)
     /\ total_of(i, new).st = "ok"
     /\ total_of(i, new).v = SumOfFreqs(i, new, n - 1)

\* C6: in each implementation a scale(f) that completes has applied f exactly once to
\* the pre-scale absolute frequency of each position; afterwards freq(pos) is f of the old
\* freq(pos), and sum and total are the prefix sums of the new frequencies.
C6_ScaleAppliesOncePerFreq ==
  [][(pc = "ready" /\ call'.op = "scale") =>
       \A i \in active :
         ret'[i].st = "ok" => ScaledOnce(i, Tbl(i), Tbl(i)', call'.fn, ret'[i].fargs)]_vars

\* The same effect, for the scale calls that completed in all three implementations.
ScaleAppliesOncePerFreqWhenAllComplete ==
  [][(pc = "ready" /\ pc' = "returned" /\ call'.op = "scale") =>
       \A i \in active : ScaledOnce(i, Tbl(i), Tbl(i)', call'.fn, ret'[i].fargs)]_vars

\* Same returned status and value from implementation i on tables t and u.
SameAnswer(a, b) == a.st = b.st /\ a.v = b.v

\* C7: in every implementation with_freq(len, k) builds the table that new(len) followed
\* by add(i, k) for every i in 0..len builds: both constructions complete or both fail,
\* and freq, sum and total agree at every position.
C7_WithFreqIsNewThenAdds ==
  /\ (Alive /\ track.j = TableLen) =>
       \A i \in active :
         LET w == with_freq_of(i, TableLen, track.k)
         IN /\ w.st = "ok"
            /\ SameAnswer(total_of(i, w.t), total_of(i, Tbl(i)))
            /\ \A pos \in 0..(TableLen - 1) :
                 /\ SameAnswer(freq_of(i, w.t, pos), freq_of(i, Tbl(i), pos))
                 /\ SameAnswer(sum_of(i, w.t, pos), sum_of(i, Tbl(i), pos))
  /\ (pc = "halted" /\ call.op = "add" /\ track.j >= 1) =>
       \A i \in active :
         ret[i].st = "panic" => with_freq_of(i, TableLen, track.k).st = "panic"

\* C8: the three implementations answer every call alike: the same completion or
\* failure and the same returned value.
C8_SameAnswers ==
  pc \in {"returned", "halted"} =>
    \A i \in active : \A j \in active : SameAnswer(ret[i], ret[j])

\* C9: new(0) and with_freq(0, init) fail in every implementation, and add, sub, sum and
\* freq called with pos >= len fail in every implementation and leave every cell of the
\* table as it was.
C9_OutOfRangeFails ==
  [][/\ (pc = "start" /\ call'.op \in {"new", "with_freq"} /\ call'.len = 0) =>
          /\ \A i \in active : ret'[i].st = "panic"
          /\ pc' = "halted"
          /\ freqs' = <<>> /\ sums' = <<>> /\ tree' = <<>>
     /\ (pc = "ready" /\ call'.op \in {"add", "sub", "sum", "freq"}
                      /\ call'.pos >= TableLen) =>
          /\ \A i \in active : ret'[i].st = "panic"
          /\ pc' = "halted"
          /\ UNCHANGED <<freqs, total, sums, tree>>]_vars

\* A sub at a position past the end of a non-empty, non-zero table failed everywhere.
C9_Witness ==
  /\ pc = "halted"
  /\ call.op = "sub"
  /\ call.val > 0
  /\ call.pos >= Len(tree)
  /\ Len(tree) >= 2
  /\ total > 0
  /\ \A i \in active : ret[i].st = "panic"

\* C10: sub(pos, val) with val > freq(pos) fails on underflow in every implementation:
\* none completes the call.
C10_SubUnderflowFails ==
  [][(pc = "ready" /\ call'.op = "sub" /\ call'.pos < TableLen) =>
       \A i \in active :
         (/\ freq_of(i, Tbl(i), call'.pos).st = "ok"
          /\ call'.val > freq_of(i, Tbl(i), call'.pos).v) => ret'[i].st = "panic"]_vars

\* Every in-range query of table t of implementation i completes.
QueriesComplete(i, t) ==
  /\ total_of(i, t).st = "ok"
  /\ \A pos \in 0..(len_of(i, t).v - 1) :
       sum_of(i, t, pos).st = "ok" /\ freq_of(i, t, pos).st = "ok"

\* C11: overflow and underflow are reported by the mutating call that causes them: in an
\* implementation where the constructor and every mutation so far completed, sum(pos) and
\* freq(pos) for every pos < len and total() complete.
C11_QueriesNeverOverflow ==
  Mutated => \A i \in active : ret[i].st = "ok" => QueriesComplete(i, Tbl(i))

\* The amount by which the call c changes freq(c.pos): val for add, 1 for inc, and the
\* opposite for sub and dec.
Delta(c) ==
  CASE c.op = "add" -> c.val
    [] c.op = "inc" -> 1
    [] c.op = "sub" -> 0 - c.val
    [] c.op = "dec" -> 0 - 1

\* Between tables old and new of implementation i, freq(pos) moved by d and no other
\* frequency moved; sum(q) moved by d from pos on and not before; len is the same.
FrameEffect(i, old, new, pos, d) ==
  /\ len_of(i, new).v = len_of(i, old).v
  /\ \A q \in 0..(len_of(i, old).v - 1) :
       /\ freq_of(i, new, q).st = "ok"
       /\ freq_of(i, new, q).v = freq_of(i, old, q).v + (IF q = pos THEN d ELSE 0)
       /\ sum_of(i, new, q).st = "ok"
       /\ sum_of(i, new, q).v = sum_of(i, old, q).v + (IF q >= pos THEN d ELSE 0)

\* C12: in every implementation an add(pos, val) or sub(pos, val) that completes moves
\* freq(pos) by val and no other frequency, moves sum(q) by val for q >= pos and not for
\* q < pos, and keeps len; inc and dec do the same with val = 1.
C12_AddSubFrameEffect ==
  [][(pc = "ready" /\ call'.op \in {"add", "sub", "inc", "dec"}) =>
       \A i \in active :
         ret'[i].st = "ok" => FrameEffect(i, Tbl(i), Tbl(i)', call'.pos, Delta(call'))]_vars

\* The same frame effect, for the calls that completed in all three implementations.
AddSubFrameEffectWhenAllComplete ==
  [][(pc = "ready" /\ pc' = "returned" /\ call'.op \in {"add", "sub", "inc", "dec"}) =>
       \A i \in active : FrameEffect(i, Tbl(i), Tbl(i)', call'.pos, Delta(call'))]_vars

(***************************************************************************)
(* The loops of binary_indexed_tree, one iteration per step.  A second     *)
(* caller holds one tree, issues one call and follows it: pc is "idle"     *)
(* before the call, "walking" while the call is inside its loop and "done" *)
(* once it returned or panicked.                                           *)
(***************************************************************************)
\* The trees new and with_freq build.
ConstructedTrees ==
  {o.t : o \in {p \in {BinaryIndexedTree_new(len) : len \in 1..MaxLoopLen}
                      \cup {BinaryIndexedTree_with_freq(len, init) :
                              len \in 1..MaxLoopLen, init \in FVals} : p.st = "ok"}}

\* The trees a constructor, or a constructor and one add, leave.
BuiltTrees ==
  ConstructedTrees
    \cup {o.t : o \in {p \in {BinaryIndexedTree_add(t, pos, val) :
                               t \in ConstructedTrees, pos \in 0..(MaxLoopLen - 1),
                               val \in Vals} : p.st = "ok"}}

InitLoops ==
  /\ pc = "idle"
  /\ active = {BIT}
  /\ freqs = <<>>
  /\ total = 0
  /\ sums = <<>>
  /\ tree \in BuiltTrees
  /\ call = NoCall
  /\ ret = [i \in Impls |-> NotCalled]
  /\ track = NoTrack
  /\ walk = NoWalk

\* The call c enters its loop with the local variables w.
Enter(c, w, tr) ==
  /\ pc' = "walking"
  /\ call' = c
  /\ walk' = w
  /\ tree' = tr
  /\ UNCHANGED <<active, freqs, total, sums, ret, track>>

\* The call c ends with outcome o, its local variables being w.
Return(c, w, o) ==
  /\ pc' = "done"
  /\ call' = c
  /\ walk' = w
  /\ tree' = o.t
  /\ ret' = [ret EXCEPT ![BIT] = Res(o)]
  /\ UNCHANGED <<active, freqs, total, sums, track>>

\* One more iteration: the local variables become w, the tree tr.
Iterate(w, tr) ==
  /\ walk' = w
  /\ tree' = tr
  /\ UNCHANGED <<pc, active, freqs, total, sums, call, ret, track>>

\* add: the assertion, then tree[0] += val when pos == 0, else the loop.
BeginAdd ==
  /\ pc = "idle"
  /\ \E pos \in 0..Len(tree), val \in Vals :
       LET c == Call("add", 0, pos, val, "none")
           w == Walk("add", pos, 0, 0, 0, val, -1, tree)
       IN IF ~(pos < Len(tree)) \/ pos = 0
          THEN Return(c, w, BinaryIndexedTree_add(tree, pos, val))
          ELSE Enter(c, w, tree)

\* while pos < len { tree[pos] += val; pos += 1 << pos.trailing_zeros(); }
StepAdd ==
  /\ pc = "walking"
  /\ walk.op = "add"
  /\ IF walk.pos < Len(tree)
     THEN IF Get(tree, walk.pos) + walk.val > FMax
          THEN Return(call, walk, Panic(tree))
          ELSE Iterate([walk EXCEPT !.pos = walk.pos + LowBit(walk.pos)],
                       Put(tree, walk.pos, Get(tree, walk.pos) + walk.val))
     ELSE Return(call, walk, Ok(0, tree))

\* sub: the assertion, then tree[0] -= val when pos == 0, else the loop.
BeginSub ==
  /\ pc = "idle"
  /\ \E pos \in 0..Len(tree), val \in Vals :
       LET c == Call("sub", 0, pos, val, "none")
           w == Walk("sub", pos, 0, 0, 0, val, -1, tree)
       IN IF ~(pos < Len(tree)) \/ pos = 0
          THEN Return(c, w, BinaryIndexedTree_sub(tree, pos, val))
          ELSE Enter(c, w, tree)

\* while pos < len { tree[pos] -= val; pos += 1 << pos.trailing_zeros(); }
StepSub ==
  /\ pc = "walking"
  /\ walk.op = "sub"
  /\ IF walk.pos < Len(tree)
     THEN IF Get(tree, walk.pos) - walk.val < 0
          THEN Return(call, walk, Panic(tree))
          ELSE Iterate([walk EXCEPT !.pos = walk.pos + LowBit(walk.pos)],
                       Put(tree, walk.pos, Get(tree, walk.pos) - walk.val))
     ELSE Return(call, walk, Ok(0, tree))

\* sum: the assertion, then let mut sum = tree[0].
BeginSum ==
  /\ pc = "idle"
  /\ \E pos \in 0..Len(tree) :
       LET c == Call("sum", 0, pos, 0, "none")
       IN IF ~(pos < Len(tree))
          THEN Return(c, Walk("sum", pos, 0, 0, 0, 0, -1, tree), Panic(tree))
          ELSE Enter(c, Walk("sum", pos, 0, 0, Get(tree, 0), 0, -1, tree), tree)

\* Variant of the sum loop that leaves pos where it is.
StepSum_keep_pos ==
  /\ pc = "walking"
  /\ walk.op = "sum"
  /\ IF walk.pos > 0
     THEN IF walk.acc + Get(tree, walk.pos) > FMax
          THEN Return(call, walk, Panic(tree))
          ELSE Iterate([walk EXCEPT !.acc = walk.acc + Get(tree, walk.pos)], tree)
     ELSE Return(call, walk, Ok(walk.acc, tree))

\* while pos > 0 { sum += tree[pos]; pos -= 1 << pos.trailing_zeros(); }
StepSum ==
  /\ pc = "walking"
  /\ walk.op = "sum"
  /\ IF walk.pos > 0
     THEN IF walk.acc + Get(tree, walk.pos) > FMax
          THEN Return(call, walk, Panic(tree))
          ELSE Iterate([walk EXCEPT !.pos = walk.pos - LowBit(walk.pos),
                                    !.acc = walk.acc + Get(tree, walk.pos)], tree)
     ELSE Return(call, walk, Ok(walk.acc, tree))

\* total: self.sum(self.len() - 1).
BeginTotal ==
  /\ pc = "idle"
  /\ Enter(Call("total", 0, 0, 0, "none"),
           Walk("sum", Len(tree) - 1, 0, 0, Get(tree, 0), 0, -1, tree), tree)

\* freq: the assertion, let mut freq = tree[pos], and when pos > 0
\* let parent = pos - (1 << pos.trailing_zeros()); pos -= 1.
BeginFreq ==
  /\ pc = "idle"
  /\ \E pos \in 0..Len(tree) :
       LET c == Call("freq", 0, pos, 0, "none")
       IN IF ~(pos < Len(tree))
          THEN Return(c, Walk("freq", pos, 0, 0, 0, 0, -1, tree), Panic(tree))
          ELSE IF pos > 0
               THEN Enter(c, Walk("freq", pos - 1, pos - LowBit(pos), 0, Get(tree, pos),
                                  0, -1, tree), tree)
               ELSE Return(c, Walk("freq", pos, 0, 0, Get(tree, pos), 0, -1, tree),
                           Ok(Get(tree, pos), tree))

\* while parent != pos { freq -= tree[pos]; pos -= 1 << pos.trailing_zeros(); }
\* At pos = 0 the shift amount is the width of usize and the shift panics.
StepFreq ==
  /\ pc = "walking"
  /\ walk.op = "freq"
  /\ IF walk.parent # walk.pos
     THEN IF walk.acc - Get(tree, walk.pos) < 0 \/ walk.pos = 0
          THEN Return(call, walk, Panic(tree))
          ELSE Iterate([walk EXCEPT !.pos = walk.pos - LowBit(walk.pos),
                                    !.acc = walk.acc - Get(tree, walk.pos)], tree)
     ELSE Return(call, walk, Ok(walk.acc, tree))

\* find_by_sum: let mut pos = 0; if sum > tree[0] { sum -= tree[0];
\* let mut mid = (((len - 1) / 2) + 1).next_power_of_two(); ... } pos
BeginFind ==
  /\ pc = "idle"
  /\ \E target \in FVals :
       LET c == Call("find_by_sum", 0, 0, target, "none")
       IN IF target > Get(tree, 0)
          THEN Enter(c, Walk("find_by_sum", 0, 0,
                             NextPowerOfTwo(((Len(tree) - 1) \div 2) + 1),
                             target - Get(tree, 0), 0, -1, tree), tree)
          ELSE Return(c, Walk("find_by_sum", 0, 0, 0, target, 0, -1, tree), Ok(0, tree))

\* Variant of the descent that reads tree[hi] without testing hi < len first: the
\* indexing panics when hi is out of bounds.
StepFind_unguarded ==
  /\ pc = "walking"
  /\ walk.op = "find_by_sum"
  /\ IF walk.mid # 0
     THEN LET hi == walk.pos + walk.mid
          IN IF ~(hi < Len(tree))
             THEN Return(call, [walk EXCEPT !.hi = hi], Panic(tree))
             ELSE IF walk.acc >= Get(tree, hi)
                  THEN Iterate([walk EXCEPT !.pos = hi, !.acc = walk.acc - Get(tree, hi),
                                            !.mid = walk.mid \div 2, !.hi = hi], tree)
                  ELSE Iterate([walk EXCEPT !.mid = walk.mid \div 2, !.hi = hi], tree)
     ELSE Return(call, walk, Ok(walk.pos, tree))

\* while mid != 0 { let hi = pos + mid;
\*   if hi < len && sum >= tree[hi] { pos = hi; sum -= tree[pos]; } mid /= 2; }
\* walk.hi is the index the iteration read the tree at, -1 when hi < len was false.
StepFind ==
  /\ pc = "walking"
  /\ walk.op = "find_by_sum"
  /\ IF walk.mid # 0
     THEN LET hi == walk.pos + walk.mid
          IN IF hi < Len(tree)
             THEN IF walk.acc >= Get(tree, hi)
                  THEN Iterate([walk EXCEPT !.pos = hi, !.acc = walk.acc - Get(tree, hi),
                                            !.mid = walk.mid \div 2, !.hi = hi], tree)
                  ELSE Iterate([walk EXCEPT !.mid = walk.mid \div 2, !.hi = hi], tree)
             ELSE Iterate([walk EXCEPT !.mid = walk.mid \div 2, !.hi = -1], tree)
     ELSE Return(call, walk, Ok(walk.pos, tree))

\* An iteration of the loop the call is in.
Step == StepAdd \/ StepSub \/ StepSum \/ StepFreq \/ StepFind

NextLoops ==
  \/ BeginAdd
  \/ BeginSub
  \/ BeginSum
  \/ BeginTotal
  \/ BeginFreq
  \/ BeginFind
  \/ StepAdd
  \/ StepSub
  \/ StepSum
  \/ StepFreq
  \/ StepFind

\* A call that is running goes on running: its next iteration is eventually executed.
SpecLoops == InitLoops /\ [][NextLoops]_vars /\ WF_vars(Step)

\* The outcome of the call c made on tree t, computed in one go.
Atomic(c, t) ==
  CASE c.op = "add" -> BinaryIndexedTree_add(t, c.pos, c.val)
    [] c.op = "sub" -> BinaryIndexedTree_sub(t, c.pos, c.val)
    [] c.op = "sum" -> BinaryIndexedTree_sum(t, c.pos)
    [] c.op = "total" -> BinaryIndexedTree_total(t)
    [] c.op = "freq" -> BinaryIndexedTree_freq(t, c.pos)
    [] c.op = "find_by_sum" -> BinaryIndexedTree_find_by_sum(t, c.val)

\* C13: every binary_indexed_tree call that entered its loop leaves it (returns or
\* panics); the freq walk never steps below the parent index; and the call followed
\* iteration by iteration ends with the outcome and the tree of the call computed in
\* one go.
C13_LoopsTerminate ==
  /\ (pc = "walking") ~> (pc = "done")
  /\ []((pc = "walking" /\ walk.op = "freq") => walk.pos >= walk.parent)
  /\ [](pc = "done" =>
          /\ ret[BIT] = Res(Atomic(call, walk.t0))
          /\ tree = Atomic(call, walk.t0).t)

\* A freq call on a position of three or more set bits below it returned after its walk.
C13_Witness ==
  /\ pc = "done"
  /\ call.op = "freq"
  /\ call.pos = 4
  /\ walk.pos = 0
  /\ ret[BIT].st = "ok"
  /\ ret[BIT].v > 0

\* f[lo] + ... + f[hi] for positions lo..hi of the sequence f.
RECURSIVE RangeSum(_, _, _)
RangeSum(f, lo, hi) == IF lo > hi THEN 0 ELSE Get(f, hi) + RangeSum(f, lo, hi - 1)

\* C14: after a constructor or a mutation that completed, tree[0] is the frequency of
\* position 0 and tree[i], for i in 1..len, is the sum of the frequencies of positions
\* i - lowbit(i) + 1 ..= i, the frequencies being those of the flat array freq_array
\* keeps under the same calls.
C14_TreeLayout ==
  Changed =>
    /\ Len(tree) = Len(freqs)
    /\ Get(tree, 0) = Get(freqs, 0)
    /\ \A i \in 1..(Len(tree) - 1) :
         Get(tree, i) = RangeSum(freqs, i - LowBit(i) + 1, i)

\* A scale that completed on a table of four positions whose first three frequencies
\* are different and not zero.
C14_Witness ==
  /\ pc = "returned"
  /\ call.op = "scale"
  /\ Len(tree) = 4
  /\ Get(freqs, 0) > 0
  /\ Get(freqs, 0) < Get(freqs, 1)
  /\ Get(freqs, 1) < Get(freqs, 2)
  /\ Get(tree, 2) = Get(freqs, 1) + Get(freqs, 2)
  /\ Get(tree, 3) = Get(freqs, 3)

\* Every frequency of the tree t is at least 1.
AllPositive(t) ==
  \A q \in 0..(Len(t) - 1) :
    BinaryIndexedTree_freq(t, q).st = "ok" /\ BinaryIndexedTree_freq(t, q).v >= 1

\* C15: for every length, the find_by_sum descent reads the tree only at indices below
\* len, and on a tree whose frequencies are all >= 1 find_by_sum(sum(p)) returns p for
\* every position p, the last one included.
C15_DescentInRangeAndComplete ==
  /\ (pc \in {"walking", "done"} /\ walk.op = "find_by_sum") => walk.hi < Len(tree)
  /\ (pc = "done" /\ call.op = "find_by_sum" /\ AllPositive(walk.t0)) =>
       \A p \in 0..(Len(tree) - 1) :
         (/\ BinaryIndexedTree_sum(walk.t0, p).st = "ok"
          /\ BinaryIndexedTree_sum(walk.t0, p).v = call.val)
           => (ret[BIT].st = "ok" /\ ret[BIT].v = p)

\* find_by_sum(total()) returned the last position of a tree of seven positions, a
\* length that is no power of two, whose frequencies are all >= 1; the last iteration
\* found hi = 7 out of range and did not read the tree.
C15_Witness ==
  /\ pc = "done"
  /\ call.op = "find_by_sum"
  /\ Len(tree) = 7
  /\ AllPositive(walk.t0)
  /\ BinaryIndexedTree_total(walk.t0).st = "ok"
  /\ BinaryIndexedTree_total(walk.t0).v = call.val
  /\ ret[BIT].st = "ok"
  /\ ret[BIT].v = 6
  /\ walk.hi = -1

\* The largest position of tree t whose prefix sum is at most target; -1 when none is.
RECURSIVE LargestNotAbove(_, _, _)
LargestNotAbove(t, pos, target) ==
  IF pos < 0 THEN -1
  ELSE IF BinaryIndexedTree_sum(t, pos).st = "ok" /\ BinaryIndexedTree_sum(t, pos).v <= target
       THEN pos
       ELSE LargestNotAbove(t, pos - 1, target)

\* C16: binary_indexed_tree find_by_sum(target) returns 0 when target <= freq(0), and
\* otherwise the largest position whose prefix sum is at most target, which is len - 1
\* when target > total().
C16_BitFindBySum ==
  (FindReturned /\ BIT \in active) =>
    /\ ret[BIT].st = "ok"
    /\ call.val <= BinaryIndexedTree_freq(tree, 0).v => ret[BIT].v = 0
    /\ call.val > BinaryIndexedTree_freq(tree, 0).v =>
         ret[BIT].v = LargestNotAbove(tree, Len(tree) - 1, call.val)
    /\ call.val > BinaryIndexedTree_total(tree).v => ret[BIT].v = Len(tree) - 1

\* find_by_sum with a target between freq(0) and total() returned position 2 of a tree
\* of four positions where the first position reaching the target is 1.
C16_Witness ==
  /\ pc = "returned"
  /\ call.op = "find_by_sum"
  /\ Len(tree) = 4
  /\ call.val > Get(tree, 0)
  /\ call.val < total
  /\ ret[BIT].v = 2
  /\ ret[FA].v = 1

====
